---- MODULE Spec2Model ----
(***************************************************************************)
(* Model of the task-distribution and batch-persistence engine of the      *)
(* BigBasket scraper: ThreadingBase (core/task_destribution/               *)
(* thread_task_destribution.py) as specialised by ProductsScraper          *)
(* (services/products_scraper.py).                                         *)
(*                                                                         *)
(* Threads: the main thread (run / execution_pipeline), th_num workers     *)
(* (scraping_consumer) and one batch saver (save_results).                 *)
(***************************************************************************)
EXTENDS Integers, Sequences, FiniteSets, TLC

(* ------------------------------ bounds --------------------------------- *)
th_num == 2              \* worker threads (constructor argument)
MaxTasks == 2            \* longest task list handed to run
MaxRecords == 3          \* records parsed in one run, over all tasks
NumKeys == 2             \* distinct product_id values
save_result_limit == 2   \* batch size (constructor argument)
MaxPages == 3            \* largest number_of_pages a listing page reports
ScTasks == 3             \* tasks of the three-task scenario
ScRecords == 5           \* records parsed in that scenario, all keys distinct

MaxCalls == 3            \* save_batch calls followed

\* self.max_retries, set in ProductsScraper.__init__
max_retries == 5

\* self.max_connection_retries, set in DB.__init__
max_connection_retries == 10

Workers == 1..th_num
Keys == 1..NumKeys
Pages == 1..MaxPages

VARIABLES
    mpc,            \* main thread: position in run / execution_pipeline
    ret,            \* value returned by execution_pipeline ("-" while running)
    tasks,          \* self.tasks   (Queue)
    results,        \* self.results (Queue)
    is_stopped,     \* self.is_stopped
    s_counter, f_counter, t_counter,
    block,          \* free permits of self.block (Semaphore)
    on_conflict_stmt, \* self.on_conflict_stmt: "None" or "prepared"
    wpc,            \* per worker: position in scraping_consumer
    wtask,          \* per worker: task being executed (0: none)
    wres,           \* per worker: result seen by progress_logger
    wtmp,           \* per worker: counter value read by "+= 1"
    spc,            \* saver: position in save_results(force_save=False)
    si,             \* saver: iteration of the current "for _ in range(limit)"
    to_save,        \* saver: local list to_save
    save_ret,       \* what the saving_executor call just made returned ("-": none)
    produced,       \* history: records put on the result queue so far
    dispatched,     \* history: per task, times it was passed to scraping_executor
    passed,         \* history: per record, times it was in a saving_executor batch
    lastBatch,      \* the list passed to the saving_executor call just made
    lastSunk,       \* the list that call handed to db.save_products
    lastBy,         \* who made that call: "saver", "final" or "-" (none)
    xpc,            \* one scraping_executor call: position in its body
    xret,           \* what that call returned to its caller ("-": running)
    page,           \* scraping_executor: local page
    last_page,      \* scraping_executor: local last_page (a Python value)
    attempt,        \* scraping_executor: local attempt of the retry loop
    tries,          \* history: per page, requests sent for it by this call
    left,           \* history: per page, how the call left it ("-": not yet)
    resp,           \* history: the response to the request just sent
    dpc,            \* one DB.save_batch call: position in the cursor wrapper
    conn,           \* cursor wrapper: local conn ("None", "open", "closed", "False")
    dtry,           \* get_connection: iteration of its retry loop
    dret,           \* what the save_batch call returned ("-": none yet)
    dcalls,         \* history: save_batch calls made
    nopen           \* history: database connections open now

vars == << mpc, ret, tasks, results, is_stopped, s_counter, f_counter, t_counter,
           block, on_conflict_stmt, wpc, wtask, wres, wtmp, spc, si, to_save,
           save_ret, produced, dispatched, passed, lastBatch, lastSunk, lastBy,
           xpc, xret, page, last_page, attempt, tries, left, resp,
           dpc, conn, dtry, dret, dcalls, nopen >>

shared == << tasks, results, is_stopped, s_counter, f_counter, t_counter, block >>
call == << save_ret, lastBatch, lastSunk, lastBy >>
hist == << produced, dispatched, passed >>
saverLocal == << spc, si, to_save >>
workerLocal == << wpc, wtask, wres, wtmp >>
pageVars == << xpc, xret, page, last_page, attempt, tries, left, resp >>
dbVars == << dpc, conn, dtry, dret, dcalls, nopen >>

(* ------------------------------ helpers -------------------------------- *)
qsize(q) == Len(q)

RECURSIVE Orders(_)
Orders(S) ==
    IF S = {} THEN { <<>> }
    ELSE UNION { { <<x>> \o p : p \in Orders(S \ {x}) } : x \in S }

\* random.shuffle(tasks): any order of the input list
shuffle(n) == Orders(1..n)

\* ThreadingBase.exception: a method without return annotation that raises
\* yields the exception object; any returned value passes through.
exception(outcome) == IF outcome = "Raise" THEN "Exc" ELSE outcome

\* product ids are opaque and only compared for equality, so the n-th record
\* parsed needs at most n different ids
NewKeys == { k \in Keys : k <= produced + 1 }

\* a parsed product: product_id is the key, serial stands for the other fields
Record(k, n) == [product_id |-> k, serial |-> n]

\* mutant of unique: no deduplication at all
unique_all(rs, unique_ids, acc) == rs

\* mutant of unique: a later record of a key replaces the earlier one
RECURSIVE unique_last(_, _, _)
unique_last(rs, unique_ids, acc) ==
    IF rs = <<>> THEN acc
    ELSE LET result == Head(rs) IN
         IF \E i \in DOMAIN Tail(rs) : Tail(rs)[i].product_id = result.product_id
         THEN unique_last(Tail(rs), unique_ids, acc)
         ELSE unique_last(Tail(rs), unique_ids, Append(acc, result))

\* ProductsScraper.saving_executor, the loop over results: keep a record
\* only if its product_id was not seen before in this batch
RECURSIVE unique(_, _, _)
unique(rs, unique_ids, acc) ==
    IF rs = <<>> THEN acc
    ELSE LET result == Head(rs) IN
         IF result.product_id \notin unique_ids
         THEN unique(Tail(rs), unique_ids \cup {result.product_id}, Append(acc, result))
         ELSE unique(Tail(rs), unique_ids, acc)

\* what db.save_products can return: True, False (no connection, or save_batch
\* caught an exception) or None (the cursor decorator swallowed an exception)
SaveOutcomes == {"True", "False", "None"}

\* what a scraping_executor body can do: return True (ProductsScraper), return
\* None (the base class body is "pass") or False (a failure reported by an
\* override), or raise (e.g. "page <= last_page" with last_page left an
\* exception object by parse_product_data)
ExecOutcomes == {"True", "False", "None", "Raise"}

Occurrences(batch, n) == Cardinality({i \in DOMAIN batch : batch[i].serial = n})

\* one call saving_executor(batch) whose db.save_products returns r
saving_executor(batch, who, r) ==
    /\ lastBatch' = batch
    /\ lastSunk' = unique(batch, {}, <<>>)
    /\ lastBy' = who
    /\ passed' = [n \in DOMAIN passed |-> passed[n] + Occurrences(batch, n)]
    /\ on_conflict_stmt' = "prepared"
    /\ save_ret' = r

\* the caller moves on: the call just made is over
forget == save_ret' = "-" /\ lastBatch' = <<>> /\ lastSunk' = <<>> /\ lastBy' = "-"

(* Python values that last_page can hold: an int, the bool False (which
   compares as 0), or an exception object. NoneObj stands for "no value". *)
IntObj(n) == [kind |-> "int", val |-> n]
FalseObj == [kind |-> "bool", val |-> 0]
ExcObj == [kind |-> "exc", val |-> 0]
NoneObj == [kind |-> "none", val |-> 0]

\* isinstance(x, int): bool is a subclass of int
isinstance_int(x) == x.kind \in {"int", "bool"}

\* what parse_product_data returns through its exception decorator: False
\* when the payload has no product_info, the exception object when it raises,
\* else number_of_pages
ParseOutcomes == {FalseObj, ExcObj} \cup { IntObj(n) : n \in Pages }

\* one request of scraping_executor as the code sees it: status "204", "200",
\* or "error" (session.get raises, another status code, or response.json()
\* raises); for a 200, what parse_product_data returns and the number of
\* records it put on the result queue
Response(status, parsed, nrec) == [status |-> status, parsed |-> parsed, nrec |-> nrec]

Responses ==
    {Response("204", NoneObj, 0), Response("error", NoneObj, 0)}
    \cup { Response("200", o, 0) : o \in ParseOutcomes }
    \cup { Response("200", IntObj(n), 1) : n \in Pages }

(* ------------------------------- Init ---------------------------------- *)
\* the state after ProductsScraper.__init__
Init ==
    /\ mpc = "idle" /\ ret = "-"
    /\ tasks = <<>> /\ results = <<>>
    /\ is_stopped = FALSE
    /\ s_counter = 0 /\ f_counter = 0 /\ t_counter = 0
    /\ block = th_num
    /\ on_conflict_stmt = "None"
    /\ wpc = [w \in Workers |-> "idle"]
    /\ wtask = [w \in Workers |-> 0]
    /\ wres = [w \in Workers |-> "-"]
    /\ wtmp = [w \in Workers |-> 0]
    /\ spc = "idle" /\ si = 0 /\ to_save = <<>>
    /\ save_ret = "-"
    /\ produced = 0
    /\ dispatched = [t \in 1..MaxTasks |-> 0]
    /\ passed = [n \in 1..MaxRecords |-> 0]
    /\ lastBatch = <<>> /\ lastSunk = <<>> /\ lastBy = "-"
    /\ xpc = "idle" /\ xret = "-"
    /\ page = 0 /\ last_page = IntObj(0) /\ attempt = 0
    /\ tries = [p \in Pages |-> 0]
    /\ left = [p \in Pages |-> "-"]
    /\ resp = Response("-", NoneObj, 0)
    /\ dpc = "idle" /\ conn = "None" /\ dtry = 0 /\ dret = "-"
    /\ dcalls = 0 /\ nopen = 0

(* ---------------------------- main thread ------------------------------ *)
\* run: shuffle, then execution_pipeline up to the start of the threads
Run ==
    /\ mpc = "idle"
    /\ \E n \in 1..MaxTasks : \E input_data \in shuffle(n) :
          /\ t_counter' = Len(input_data)
          /\ tasks' = tasks \o input_data
    /\ s_counter' = 0 /\ f_counter' = 0
    /\ is_stopped' = FALSE
    /\ wpc' = [w \in Workers |-> "session"]
    /\ spc' = "top"
    /\ mpc' = "join"
    /\ UNCHANGED << ret, results, block, on_conflict_stmt, wtask, wres, wtmp, si,
                    to_save >>
    /\ UNCHANGED hist /\ UNCHANGED call
    /\ UNCHANGED pageVars /\ UNCHANGED dbVars

\* mutant of AllJoined: the saver thread is not joined
AllJoined_workers == \A w \in Workers : wpc[w] = "done"

\* for th in pool: th.join()
AllJoined == (\A w \in Workers : wpc[w] = "done") /\ spc = "done"

\* mutant of FinalFlush: the pipeline returns without the last saving
FinalFlush_skip ==
    /\ mpc = "join" /\ AllJoined
    /\ mpc' = "check"
    /\ UNCHANGED << ret, on_conflict_stmt >>
    /\ UNCHANGED shared /\ UNCHANGED hist /\ UNCHANGED call
    /\ UNCHANGED workerLocal /\ UNCHANGED saverLocal
    /\ UNCHANGED pageVars /\ UNCHANGED dbVars

\* execution_pipeline after the joins: the last saving
FinalFlush ==
    /\ mpc = "join" /\ AllJoined
    /\ IF results # <<>>
       THEN /\ \E r \in SaveOutcomes : saving_executor(results, "final", r)
            /\ results' = <<>>
       ELSE /\ results' = results
            /\ UNCHANGED << on_conflict_stmt, passed >>
            /\ UNCHANGED call
    /\ mpc' = "check"
    /\ UNCHANGED << ret, tasks, is_stopped, s_counter, f_counter, t_counter, block,
                    produced, dispatched >>
    /\ UNCHANGED workerLocal /\ UNCHANGED saverLocal
    /\ UNCHANGED pageVars /\ UNCHANGED dbVars

\* mutant of Return: a failed last saving makes the pipeline return False
Return_flush ==
    /\ mpc = "check"
    /\ ret' = IF \/ (qsize(tasks) # 0 /\ is_stopped = TRUE)
                \/ (lastBy = "final" /\ save_ret # "True")
             THEN "False" ELSE "True"
    /\ mpc' = "returned"
    /\ UNCHANGED on_conflict_stmt /\ UNCHANGED call
    /\ UNCHANGED shared /\ UNCHANGED hist
    /\ UNCHANGED workerLocal /\ UNCHANGED saverLocal
    /\ UNCHANGED pageVars /\ UNCHANGED dbVars

\* execution_pipeline: the failure check and the return
Return ==
    /\ mpc = "check"
    /\ ret' = IF qsize(tasks) # 0 /\ is_stopped = TRUE THEN "False" ELSE "True"
    /\ mpc' = "returned"
    /\ UNCHANGED on_conflict_stmt /\ UNCHANGED call
    /\ UNCHANGED shared /\ UNCHANGED hist
    /\ UNCHANGED workerLocal /\ UNCHANGED saverLocal
    /\ UNCHANGED pageVars /\ UNCHANGED dbVars

Main == Run \/ FinalFlush \/ Return

(* ------------------------------ workers -------------------------------- *)
\* mutant of InitializeSession: a worker without session raises the stop flag
InitializeSession_stop(w) ==
    /\ wpc[w] = "session"
    /\ \E session \in {"ok", "failed"} :
          /\ wpc' = [wpc EXCEPT ![w] = IF session = "ok" THEN "loop" ELSE "done"]
          /\ is_stopped' = IF session = "ok" THEN is_stopped ELSE TRUE
    /\ UNCHANGED call /\ UNCHANGED << mpc, ret, on_conflict_stmt, wtask, wres, wtmp >>
    /\ UNCHANGED << tasks, results, s_counter, f_counter, t_counter, block >>
    /\ UNCHANGED hist /\ UNCHANGED saverLocal
    /\ UNCHANGED pageVars /\ UNCHANGED dbVars

\* scraping_consumer: session = self.initialize_session(); a worker without
\* session returns False at once
InitializeSession(w) ==
    /\ wpc[w] = "session"
    /\ \E session \in {"ok", "failed"} :
          wpc' = [wpc EXCEPT ![w] = IF session = "ok" THEN "loop" ELSE "done"]
    /\ UNCHANGED call /\ UNCHANGED << mpc, ret, on_conflict_stmt, wtask, wres, wtmp >>
    /\ UNCHANGED shared /\ UNCHANGED hist /\ UNCHANGED saverLocal
    /\ UNCHANGED pageVars /\ UNCHANGED dbVars

\* mutant of LoopCondition: the loop of scraping_consumer is never entered
LoopCondition_never == FALSE

\* the loop condition of scraping_consumer
LoopCondition == qsize(tasks) # 0 /\ ~is_stopped

\* while self.tasks.qsize() != 0 and not self.is_stopped; when the condition
\* is false the worker closes its session and ends
LoopCheck(w) ==
    /\ wpc[w] = "loop"
    /\ wpc' = [wpc EXCEPT ![w] = IF LoopCondition THEN "acquire" ELSE "done"]
    /\ UNCHANGED call /\ UNCHANGED << mpc, ret, on_conflict_stmt, wtask, wres, wtmp >>
    /\ UNCHANGED shared /\ UNCHANGED hist /\ UNCHANGED saverLocal
    /\ UNCHANGED pageVars /\ UNCHANGED dbVars

\* self.block.acquire()
Acquire(w) ==
    /\ wpc[w] = "acquire"
    /\ block > 0
    /\ block' = block - 1
    /\ wpc' = [wpc EXCEPT ![w] = "get"]
    /\ UNCHANGED call /\ UNCHANGED << mpc, ret, on_conflict_stmt, wtask, wres, wtmp >>
    /\ UNCHANGED << tasks, results, is_stopped, s_counter, f_counter, t_counter >>
    /\ UNCHANGED hist /\ UNCHANGED saverLocal
    /\ UNCHANGED pageVars /\ UNCHANGED dbVars

\* mutant of GetTask: the task is read but stays at the head of the queue
GetTask_peek(w) ==
    /\ wpc[w] = "get"
    /\ tasks # <<>>
    /\ wtask' = [wtask EXCEPT ![w] = Head(tasks)]
    /\ dispatched' = [dispatched EXCEPT ![Head(tasks)] = @ + 1]
    /\ wpc' = [wpc EXCEPT ![w] = "exec"]
    /\ UNCHANGED call /\ UNCHANGED << mpc, ret, on_conflict_stmt, wres, wtmp >>
    /\ UNCHANGED shared
    /\ UNCHANGED << produced, passed >>
    /\ UNCHANGED saverLocal
    /\ UNCHANGED pageVars /\ UNCHANGED dbVars

\* task = self.tasks.get(timeout=0.1); method(task, session) is entered
GetTask(w) ==
    /\ wpc[w] = "get"
    /\ tasks # <<>>
    /\ tasks' = Tail(tasks)
    /\ wtask' = [wtask EXCEPT ![w] = Head(tasks)]
    /\ dispatched' = [dispatched EXCEPT ![Head(tasks)] = @ + 1]
    /\ wpc' = [wpc EXCEPT ![w] = "exec"]
    /\ UNCHANGED call /\ UNCHANGED << mpc, ret, on_conflict_stmt, wres, wtmp >>
    /\ UNCHANGED << results, is_stopped, s_counter, f_counter, t_counter, block >>
    /\ UNCHANGED << produced, passed >>
    /\ UNCHANGED saverLocal
    /\ UNCHANGED pageVars /\ UNCHANGED dbVars

\* mutant of GetEmpty: the timeout path leaves without releasing the permit
GetEmpty_norelease(w) ==
    /\ wpc[w] = "get"
    /\ tasks = <<>>
    /\ wpc' = [wpc EXCEPT ![w] = "done"]
    /\ UNCHANGED call /\ UNCHANGED << mpc, ret, on_conflict_stmt, wtask, wres, wtmp >>
    /\ UNCHANGED shared
    /\ UNCHANGED hist /\ UNCHANGED saverLocal
    /\ UNCHANGED pageVars /\ UNCHANGED dbVars

\* the get times out on an empty queue and raises queue.Empty. The base class
\* breaks out of the loop; products_scraper.py does not import Empty, so there
\* "except Empty" itself raises NameError. Either way control leaves through
\* "finally: self.block.release()" and the worker thread ends.
GetEmpty(w) ==
    /\ wpc[w] = "get"
    /\ tasks = <<>>
    /\ block' = block + 1
    /\ wpc' = [wpc EXCEPT ![w] = "done"]
    /\ UNCHANGED call /\ UNCHANGED << mpc, ret, on_conflict_stmt, wtask, wres, wtmp >>
    /\ UNCHANGED << tasks, results, is_stopped, s_counter, f_counter, t_counter >>
    /\ UNCHANGED hist /\ UNCHANGED saverLocal
    /\ UNCHANGED pageVars /\ UNCHANGED dbVars

\* scraping_executor -> parse_product_data: self.results.put(result)
ExecPut(w) ==
    /\ wpc[w] = "exec"
    /\ produced < MaxRecords
    /\ \E k \in NewKeys : results' = Append(results, Record(k, produced + 1))
    /\ produced' = produced + 1
    /\ UNCHANGED call /\ UNCHANGED << mpc, ret, on_conflict_stmt >>
    /\ UNCHANGED << tasks, is_stopped, s_counter, f_counter, t_counter, block >>
    /\ UNCHANGED << dispatched, passed >>
    /\ UNCHANGED workerLocal /\ UNCHANGED saverLocal
    /\ UNCHANGED pageVars /\ UNCHANGED dbVars

\* progress_logger: the counter a result is counted in ("-": in none)
progress_logger(result) ==
    IF result = "False" THEN "f"
    ELSE IF result = "None" THEN "f"
    ELSE IF result = "True" THEN "s"
    ELSE "-"

\* scraping_executor ends; the exception decorator hands its result to
\* progress_logger, which reads the counter to increment ("+= 1", first half)
ExecReturn(w) ==
    /\ wpc[w] = "exec"
    /\ \E o \in ExecOutcomes :
          LET result == exception(o) IN
          /\ wres' = [wres EXCEPT ![w] = result]
          /\ wtmp' = [wtmp EXCEPT ![w] =
                         IF progress_logger(result) = "s" THEN s_counter
                         ELSE IF progress_logger(result) = "f" THEN f_counter
                         ELSE 0]
          /\ wpc' = [wpc EXCEPT ![w] =
                         IF progress_logger(result) = "-" THEN "release" ELSE "inc"]
    /\ UNCHANGED call /\ UNCHANGED << mpc, ret, on_conflict_stmt, wtask >>
    /\ UNCHANGED shared /\ UNCHANGED hist /\ UNCHANGED saverLocal
    /\ UNCHANGED pageVars /\ UNCHANGED dbVars

\* "+= 1", second half: the counter is written with the value read plus one
Increment(w) ==
    /\ wpc[w] = "inc"
    /\ IF progress_logger(wres[w]) = "s"
       THEN s_counter' = wtmp[w] + 1 /\ f_counter' = f_counter
       ELSE f_counter' = wtmp[w] + 1 /\ s_counter' = s_counter
    /\ wtmp' = [wtmp EXCEPT ![w] = 0]
    /\ wpc' = [wpc EXCEPT ![w] = "release"]
    /\ UNCHANGED call /\ UNCHANGED << mpc, ret, on_conflict_stmt, wtask, wres >>
    /\ UNCHANGED << tasks, results, is_stopped, t_counter, block >>
    /\ UNCHANGED hist /\ UNCHANGED saverLocal
    /\ UNCHANGED pageVars /\ UNCHANGED dbVars

\* mutant of Release: a task that did not return True ends the worker
Release_quit(w) ==
    /\ wpc[w] = "release"
    /\ block' = block + 1
    /\ wtask' = [wtask EXCEPT ![w] = 0]
    /\ wres' = [wres EXCEPT ![w] = "-"]
    /\ wpc' = [wpc EXCEPT ![w] = IF wres[w] = "True" THEN "loop" ELSE "done"]
    /\ UNCHANGED call /\ UNCHANGED << mpc, ret, on_conflict_stmt, wtmp >>
    /\ UNCHANGED << tasks, results, is_stopped, s_counter, f_counter, t_counter >>
    /\ UNCHANGED hist /\ UNCHANGED saverLocal
    /\ UNCHANGED pageVars /\ UNCHANGED dbVars

\* finally: self.block.release(), and back to the loop condition
Release(w) ==
    /\ wpc[w] = "release"
    /\ block' = block + 1
    /\ wtask' = [wtask EXCEPT ![w] = 0]
    /\ wres' = [wres EXCEPT ![w] = "-"]
    /\ wpc' = [wpc EXCEPT ![w] = "loop"]
    /\ UNCHANGED call /\ UNCHANGED << mpc, ret, on_conflict_stmt, wtmp >>
    /\ UNCHANGED << tasks, results, is_stopped, s_counter, f_counter, t_counter >>
    /\ UNCHANGED hist /\ UNCHANGED saverLocal
    /\ UNCHANGED pageVars /\ UNCHANGED dbVars

Worker(w) ==
    \/ InitializeSession(w) \/ LoopCheck(w) \/ Acquire(w) \/ GetTask(w)
    \/ GetEmpty(w) \/ ExecPut(w) \/ ExecReturn(w) \/ Increment(w) \/ Release(w)

(* ---------------------------- batch saver ------------------------------ *)
\* mutant of TakeOne: the record is read but stays on the result queue
TakeOne_keep(here, next) ==
    /\ spc = here
    /\ IF qsize(results) # 0
       THEN /\ to_save' = Append(to_save, Head(results))
            /\ results' = results
       ELSE UNCHANGED << to_save, results >>
    /\ IF si + 1 < save_result_limit
       THEN si' = si + 1 /\ spc' = here
       ELSE si' = 0 /\ spc' = next
    /\ UNCHANGED call /\ UNCHANGED << mpc, ret, on_conflict_stmt >>
    /\ UNCHANGED << tasks, is_stopped, s_counter, f_counter, t_counter, block >>
    /\ UNCHANGED hist /\ UNCHANGED workerLocal
    /\ UNCHANGED pageVars /\ UNCHANGED dbVars

\* one iteration of "for _ in range(self.save_result_limit)": a get when the
\* queue is not empty; after the last iteration the saver goes on to `next`
TakeOne(here, next) ==
    /\ spc = here
    /\ IF qsize(results) # 0
       THEN /\ to_save' = Append(to_save, Head(results))
            /\ results' = Tail(results)
       ELSE UNCHANGED << to_save, results >>
    /\ IF si + 1 < save_result_limit
       THEN si' = si + 1 /\ spc' = here
       ELSE si' = 0 /\ spc' = next
    /\ UNCHANGED call /\ UNCHANGED << mpc, ret, on_conflict_stmt >>
    /\ UNCHANGED << tasks, is_stopped, s_counter, f_counter, t_counter, block >>
    /\ UNCHANGED hist /\ UNCHANGED workerLocal
    /\ UNCHANGED pageVars /\ UNCHANGED dbVars

\* if self.results.qsize() >= self.save_result_limit
SaverTop ==
    /\ spc = "top"
    /\ spc' = IF qsize(results) >= save_result_limit THEN "take" ELSE "save"
    /\ UNCHANGED call /\ UNCHANGED << mpc, ret, on_conflict_stmt, si, to_save >>
    /\ UNCHANGED shared /\ UNCHANGED hist /\ UNCHANGED workerLocal
    /\ UNCHANGED pageVars /\ UNCHANGED dbVars

SaverTake == TakeOne("take", "save")

\* mutant of SaverSave: to_save.clear() is forgotten
SaverSave_noclear ==
    /\ spc = "save"
    /\ IF to_save # <<>>
       THEN \E r \in SaveOutcomes :
              /\ saving_executor(to_save, "saver", r)
              /\ is_stopped' = IF r = "False" THEN TRUE ELSE is_stopped
       ELSE UNCHANGED << is_stopped, on_conflict_stmt, passed >> /\ UNCHANGED call
    /\ spc' = "check"
    /\ UNCHANGED << mpc, ret, si, to_save, produced, dispatched >>
    /\ UNCHANGED << tasks, results, s_counter, f_counter, t_counter, block >>
    /\ UNCHANGED workerLocal
    /\ UNCHANGED pageVars /\ UNCHANGED dbVars

\* if to_save: method(to_save) ...; to_save.clear()
SaverSave ==
    /\ spc = "save"
    /\ IF to_save # <<>>
       THEN \E r \in SaveOutcomes :
              /\ saving_executor(to_save, "saver", r)
              /\ is_stopped' = IF r = "False" THEN TRUE ELSE is_stopped
       ELSE UNCHANGED << is_stopped, on_conflict_stmt, passed >> /\ UNCHANGED call
    /\ to_save' = <<>>
    /\ spc' = "check"
    /\ UNCHANGED << mpc, ret, si, produced, dispatched >>
    /\ UNCHANGED << tasks, results, s_counter, f_counter, t_counter, block >>
    /\ UNCHANGED workerLocal
    /\ UNCHANGED pageVars /\ UNCHANGED dbVars

\* mutant of SaverCheck: the saver also ends once is_stopped is set
SaverCheck_stop ==
    /\ spc = "check"
    /\ spc' = IF is_stopped \/ (qsize(tasks) = 0 /\ qsize(results) = 0) THEN "done"
              ELSE IF qsize(tasks) = 0 /\ qsize(results) # 0 THEN "last"
              ELSE "top"
    /\ IF lastBy = "saver" THEN forget ELSE UNCHANGED call
    /\ UNCHANGED << mpc, ret, on_conflict_stmt, si, to_save >>
    /\ UNCHANGED shared /\ UNCHANGED hist /\ UNCHANGED workerLocal
    /\ UNCHANGED pageVars /\ UNCHANGED dbVars

\* the drain check at the end of an iteration, then wait(1). The two qsize()
\* reads of each test are taken as one: the task queue only shrinks and only
\* the saver takes from the result queue, so every outcome of separate reads
\* is the outcome of a joint read at the time of one of them.
SaverCheck ==
    /\ spc = "check"
    /\ spc' = IF qsize(tasks) = 0 /\ qsize(results) = 0 THEN "done"
              ELSE IF qsize(tasks) = 0 /\ qsize(results) # 0 THEN "last"
              ELSE "top"
    /\ IF lastBy = "saver" THEN forget ELSE UNCHANGED call
    /\ UNCHANGED << mpc, ret, on_conflict_stmt, si, to_save >>
    /\ UNCHANGED shared /\ UNCHANGED hist /\ UNCHANGED workerLocal
    /\ UNCHANGED pageVars /\ UNCHANGED dbVars

SaverLast == TakeOne("last", "top")

Saver == SaverTop \/ SaverTake \/ SaverSave \/ SaverCheck \/ SaverLast

(* --------------- the saver with its size test and get apart ------------ *)
\* the end of one iteration of "for _ in range(self.save_result_limit)"
NextIteration(here, next) ==
    IF si + 1 < save_result_limit
    THEN si' = si + 1 /\ spc' = here
    ELSE si' = 0 /\ spc' = next

\* mutant of TakeCheck: the get is made without the size test
TakeCheck_blind(here, getpc, next) ==
    /\ spc = here
    /\ spc' = getpc /\ si' = si
    /\ UNCHANGED << to_save, results >>
    /\ UNCHANGED call /\ UNCHANGED << mpc, ret, on_conflict_stmt >>
    /\ UNCHANGED << tasks, is_stopped, s_counter, f_counter, t_counter, block >>
    /\ UNCHANGED hist /\ UNCHANGED workerLocal
    /\ UNCHANGED pageVars /\ UNCHANGED dbVars

\* if self.results.qsize() != 0: the get follows only on a non-empty queue
TakeCheck(here, getpc, next) ==
    /\ spc = here
    /\ IF qsize(results) # 0
       THEN spc' = getpc /\ si' = si
       ELSE NextIteration(here, next)
    /\ UNCHANGED << to_save, results >>
    /\ UNCHANGED call /\ UNCHANGED << mpc, ret, on_conflict_stmt >>
    /\ UNCHANGED << tasks, is_stopped, s_counter, f_counter, t_counter, block >>
    /\ UNCHANGED hist /\ UNCHANGED workerLocal
    /\ UNCHANGED pageVars /\ UNCHANGED dbVars

\* res = self.results.get(): without timeout, it waits while the queue is
\* empty; to_save.append(res)
TakeGet(getpc, here, next) ==
    /\ spc = getpc
    /\ results # <<>>
    /\ to_save' = Append(to_save, Head(results))
    /\ results' = Tail(results)
    /\ NextIteration(here, next)
    /\ UNCHANGED call /\ UNCHANGED << mpc, ret, on_conflict_stmt >>
    /\ UNCHANGED << tasks, is_stopped, s_counter, f_counter, t_counter, block >>
    /\ UNCHANGED hist /\ UNCHANGED workerLocal
    /\ UNCHANGED pageVars /\ UNCHANGED dbVars

SaverTakeCheck == TakeCheck("take", "take_get", "save")
SaverTakeGet == TakeGet("take_get", "take", "save")
SaverLastCheck == TakeCheck("last", "last_get", "top")
SaverLastGet == TakeGet("last_get", "last", "top")

FineSaver ==
    \/ SaverTop \/ SaverTakeCheck \/ SaverTakeGet \/ SaverSave \/ SaverCheck
    \/ SaverLastCheck \/ SaverLastGet

FineNext == Main \/ (\E w \in Workers : Worker(w)) \/ FineSaver

(* ------------------- an instance that is run again --------------------- *)
\* the histories of a run start afresh with the next run
newRun ==
    /\ produced' = 0
    /\ dispatched' = [t \in DOMAIN dispatched |-> 0]
    /\ passed' = [n \in DOMAIN passed |-> 0]
    /\ forget

\* mutant of Rerun: the counters and the stop flag of the last run are kept
Rerun_noreset ==
    /\ mpc = "returned"
    /\ \E n \in 1..MaxTasks : \E input_data \in shuffle(n) :
          /\ qsize(tasks) + n <= MaxTasks
          /\ tasks' = tasks \o input_data
    /\ UNCHANGED << t_counter, s_counter, f_counter, is_stopped >>
    /\ wpc' = [w \in Workers |-> "session"]
    /\ spc' = "top"
    /\ mpc' = "join" /\ ret' = "-"
    /\ newRun
    /\ UNCHANGED << results, block, on_conflict_stmt, wtask, wres, wtmp, si, to_save >>
    /\ UNCHANGED pageVars /\ UNCHANGED dbVars

\* run is called again on the instance after it returned: shuffle, then
\* execution_pipeline up to the start of the threads, on the queues, counters
\* and flag the last run left
Rerun ==
    /\ mpc = "returned"
    /\ \E n \in 1..MaxTasks : \E input_data \in shuffle(n) :
          /\ qsize(tasks) + n <= MaxTasks
          /\ t_counter' = Len(input_data)
          /\ tasks' = tasks \o input_data
    /\ s_counter' = 0 /\ f_counter' = 0
    /\ is_stopped' = FALSE
    /\ wpc' = [w \in Workers |-> "session"]
    /\ spc' = "top"
    /\ mpc' = "join" /\ ret' = "-"
    /\ newRun
    /\ UNCHANGED << results, block, on_conflict_stmt, wtask, wres, wtmp, si, to_save >>
    /\ UNCHANGED pageVars /\ UNCHANGED dbVars

\* execution_pipeline raises before a thread runs (th.start() cannot start a
\* new thread): the counters are reset and the tasks queued, and the
\* exception decorator returns the exception object
PipelineRaises ==
    /\ mpc \in {"idle", "returned"}
    /\ \E n \in 1..MaxTasks : \E input_data \in shuffle(n) :
          /\ qsize(tasks) + n <= MaxTasks
          /\ t_counter' = Len(input_data)
          /\ tasks' = tasks \o input_data
    /\ s_counter' = 0 /\ f_counter' = 0
    /\ is_stopped' = FALSE
    /\ mpc' = "returned" /\ ret' = exception("Raise")
    /\ newRun
    /\ UNCHANGED << results, block, on_conflict_stmt, si, to_save >>
    /\ UNCHANGED workerLocal /\ UNCHANGED << spc >>
    /\ UNCHANGED pageVars /\ UNCHANGED dbVars

\* "not x" of Python on what execution_pipeline returns: False and None are
\* falsy, True and an exception object are truthy
Falsy(r) == r \in {"False", "None"}

\* run: if not self.execution_pipeline(tasks): return False; return True
run_result(r) == IF Falsy(r) THEN "False" ELSE "True"

InstanceNext ==
    Main \/ (\E w \in Workers : Worker(w)) \/ Saver \/ Rerun \/ PipelineRaises

(* ------------------- one scraping_executor call ------------------------ *)
\* the pipeline state a scraping_executor call leaves alone (it puts records
\* and is counted by progress_logger)
pageFrame == << mpc, ret, tasks, is_stopped, f_counter, t_counter, block,
                on_conflict_stmt, wpc, wtask, wres, wtmp, spc, si, to_save,
                save_ret, dispatched, passed, lastBatch, lastSunk, lastBy,
                dpc, conn, dtry, dret, dcalls, nopen >>

\* scraping_executor is entered: page = 1, last_page = 2
ExecStart ==
    /\ xpc = "idle"
    /\ page' = 1
    /\ last_page' = IntObj(2)
    /\ xpc' = "while"
    /\ UNCHANGED << xret, attempt, tries, left, resp, results, produced, s_counter >>
    /\ UNCHANGED pageFrame

\* while page <= last_page: the comparison raises TypeError when last_page
\* is an exception object, and the exception decorator returns that error;
\* after the loop the body returns True. progress_logger counts the result.
WhileCheck ==
    /\ xpc = "while"
    /\ IF last_page.kind = "exc"
       THEN /\ xret' = exception("Raise")
            /\ xpc' = "done"
       ELSE IF page <= last_page.val
       THEN /\ xret' = xret
            /\ xpc' = "request"
       ELSE /\ xret' = exception("True")
            /\ xpc' = "done"
    /\ s_counter' = IF progress_logger(xret') = "s" THEN s_counter + 1 ELSE s_counter
    /\ attempt' = 0
    /\ UNCHANGED << page, last_page, tries, left, resp, results, produced >>
    /\ UNCHANGED pageFrame

\* mutant of AttemptFails: no attempt is taken as failed, so none is retried
AttemptFails_never(r) == FALSE

\* the attempt raises: a status other than 200 and 204 (or no response), or a
\* page count that is not an int
AttemptFails(r) ==
    \/ r.status = "error"
    \/ r.status = "200" /\ ~isinstance_int(r.parsed)

\* mutant of RetriesLeft: the retry loop runs once more
RetriesLeft_more(a) == a + 1 < max_retries + 1

\* for attempt in range(self.max_retries): another attempt follows attempt a
RetriesLeft(a) == a + 1 < max_retries

\* one pass through the body of the retry loop: the request, the parse of a
\* 200 (which puts the page's records and overwrites last_page), then break,
\* retry, or the for-else; page += 1 when the retry loop is left
Request ==
    /\ xpc = "request"
    /\ \E r \in Responses :
          /\ produced + r.nrec <= MaxRecords
          /\ resp' = r
          /\ tries' = [tries EXCEPT ![page] = @ + 1]
          /\ IF r.nrec = 1
             THEN /\ \E k \in NewKeys : results' = Append(results, Record(k, produced + 1))
                  /\ produced' = produced + 1
             ELSE UNCHANGED << results, produced >>
          /\ last_page' = IF r.status = "200" THEN r.parsed ELSE last_page
          /\ IF ~AttemptFails(r)
             THEN /\ left' = [left EXCEPT ![page] = IF r.status = "204" THEN "204" ELSE "parsed"]
                  /\ page' = page + 1
                  /\ attempt' = 0
                  /\ xpc' = "while"
             ELSE IF RetriesLeft(attempt)
             THEN /\ attempt' = attempt + 1
                  /\ UNCHANGED << left, page, xpc >>
             ELSE /\ left' = [left EXCEPT ![page] = "skipped"]
                  /\ page' = page + 1
                  /\ attempt' = 0
                  /\ xpc' = "while"
    /\ UNCHANGED << xret, s_counter >>
    /\ UNCHANGED pageFrame

PageNext == ExecStart \/ WhileCheck \/ Request

(* ---------------- the scenario: 3 tasks, 5 distinct records ------------ *)
\* The pipeline with ScTasks tasks whose pages hold ScRecords records with
\* distinct product ids, in a healthy environment: every session is
\* initialised, scraping_executor returns True, every save returns True.
ScInit ==
    /\ mpc = "idle" /\ ret = "-"
    /\ tasks = <<>> /\ results = <<>>
    /\ is_stopped = FALSE
    /\ s_counter = 0 /\ f_counter = 0 /\ t_counter = 0
    /\ block = th_num
    /\ on_conflict_stmt = "None"
    /\ wpc = [w \in Workers |-> "idle"]
    /\ wtask = [w \in Workers |-> 0]
    /\ wres = [w \in Workers |-> "-"]
    /\ wtmp = [w \in Workers |-> 0]
    /\ spc = "idle" /\ si = 0 /\ to_save = <<>>
    /\ save_ret = "-"
    /\ produced = 0
    /\ dispatched = [t \in 1..ScTasks |-> 0]
    /\ passed = [n \in 1..ScRecords |-> 0]
    /\ lastBatch = <<>> /\ lastSunk = <<>> /\ lastBy = "-"
    /\ xpc = "idle" /\ xret = "-"
    /\ page = 0 /\ last_page = IntObj(0) /\ attempt = 0
    /\ tries = [p \in Pages |-> 0]
    /\ left = [p \in Pages |-> "-"]
    /\ resp = Response("-", NoneObj, 0)
    /\ dpc = "idle" /\ conn = "None" /\ dtry = 0 /\ dret = "-"
    /\ dcalls = 0 /\ nopen = 0

\* run with the ScTasks tasks, in any order
ScRun ==
    /\ mpc = "idle"
    /\ \E input_data \in shuffle(ScTasks) :
          /\ t_counter' = Len(input_data)
          /\ tasks' = tasks \o input_data
    /\ s_counter' = 0 /\ f_counter' = 0
    /\ is_stopped' = FALSE
    /\ wpc' = [w \in Workers |-> "session"]
    /\ spc' = "top"
    /\ mpc' = "join"
    /\ UNCHANGED << ret, results, block, on_conflict_stmt, wtask, wres, wtmp, si,
                    to_save >>
    /\ UNCHANGED hist /\ UNCHANGED call
    /\ UNCHANGED pageVars /\ UNCHANGED dbVars

\* the last saving, accepted by the database
ScFinalFlush == FinalFlush /\ save_ret' \in {"True", "-"}

\* initialize_session succeeds
ScInitializeSession(w) == InitializeSession(w) /\ wpc'[w] = "loop"

\* parse_product_data puts the next of the ScRecords records, whose product
\* id no other record has
ScExecPut(w) ==
    /\ wpc[w] = "exec"
    /\ produced < ScRecords
    /\ results' = Append(results, Record(produced + 1, produced + 1))
    /\ produced' = produced + 1
    /\ UNCHANGED call /\ UNCHANGED << mpc, ret, on_conflict_stmt >>
    /\ UNCHANGED << tasks, is_stopped, s_counter, f_counter, t_counter, block >>
    /\ UNCHANGED << dispatched, passed >>
    /\ UNCHANGED workerLocal /\ UNCHANGED saverLocal
    /\ UNCHANGED pageVars /\ UNCHANGED dbVars

\* scraping_executor returns True
ScExecReturn(w) == ExecReturn(w) /\ wres'[w] = "True"

\* the saver's save, accepted by the database
ScSaverSave == SaverSave /\ save_ret' \in {"True", "-"}

ScMain == ScRun \/ ScFinalFlush \/ Return

ScWorker(w) ==
    \/ ScInitializeSession(w) \/ LoopCheck(w) \/ Acquire(w) \/ GetTask(w)
    \/ GetEmpty(w) \/ ScExecPut(w) \/ ScExecReturn(w) \/ Increment(w) \/ Release(w)

ScSaver == SaverTop \/ SaverTake \/ ScSaverSave \/ SaverCheck \/ SaverLast

ScNext == ScMain \/ (\E w \in Workers : ScWorker(w)) \/ ScSaver

(* ------------------ the pipeline in a healthy environment -------------- *)
\* every worker gets its session and every save returns True; tasks end as
\* they like
HealthyMain == Run \/ ScFinalFlush \/ Return

HealthyWorker(w) ==
    \/ ScInitializeSession(w) \/ LoopCheck(w) \/ Acquire(w) \/ GetTask(w)
    \/ GetEmpty(w) \/ ExecPut(w) \/ ExecReturn(w) \/ Increment(w) \/ Release(w)

HealthySaver == SaverTop \/ SaverTake \/ ScSaverSave \/ SaverCheck \/ SaverLast

HealthyNext == HealthyMain \/ (\E w \in Workers : HealthyWorker(w)) \/ HealthySaver

(* ---------------------- one DB.save_batch call ------------------------- *)
\* everything but the state of the database call
dbFrame == << mpc, ret, on_conflict_stmt, shared, call, hist, saverLocal,
              workerLocal, pageVars >>

\* db.save_products(...) -> save_batch through the cursor decorator:
\* conn = None, then self.get_connection()
SaveBatchCall ==
    /\ dpc = "idle"
    /\ dcalls < MaxCalls
    /\ dcalls' = dcalls + 1
    /\ conn' = "None" /\ dtry' = 0 /\ dret' = "-"
    /\ dpc' = "connect"
    /\ UNCHANGED nopen
    /\ UNCHANGED dbFrame

\* one iteration of get_connection: psycopg2.connect returns a connection,
\* or raises and the loop goes on; after max_connection_retries failures
\* get_connection returns False and the wrapper returns False, its finally
\* finding no connection to close
GetConnection ==
    /\ dpc = "connect"
    /\ \E connected \in BOOLEAN :
          IF connected
          THEN /\ conn' = "open" /\ nopen' = nopen + 1
               /\ dpc' = "cursor"
               /\ UNCHANGED << dtry, dret >>
          ELSE IF dtry + 1 < max_connection_retries
          THEN /\ dtry' = dtry + 1
               /\ UNCHANGED << conn, nopen, dpc, dret >>
          ELSE /\ conn' = "False"
               /\ dret' = "False"
               /\ dpc' = "idle"
               /\ UNCHANGED << dtry, nopen >>
    /\ UNCHANGED dcalls
    /\ UNCHANGED dbFrame

\* mutant of MakeCursor: the connection stays open when conn.cursor raises
MakeCursor_leak ==
    /\ dpc = "cursor"
    /\ \E raised \in BOOLEAN :
          IF raised
          THEN /\ dret' = "None"
               /\ dpc' = "idle"
               /\ UNCHANGED << conn, nopen >>
          ELSE /\ dpc' = "method"
               /\ UNCHANGED << conn, nopen, dret >>
    /\ UNCHANGED << dtry, dcalls >>
    /\ UNCHANGED dbFrame

\* cursor = conn.cursor(...): when it raises, the except clause logs, the
\* finally closes the connection and the wrapper returns None
MakeCursor ==
    /\ dpc = "cursor"
    /\ \E raised \in BOOLEAN :
          IF raised
          THEN /\ conn' = "closed" /\ nopen' = nopen - 1
               /\ dret' = "None"
               /\ dpc' = "idle"
          ELSE /\ dpc' = "method"
               /\ UNCHANGED << conn, nopen, dret >>
    /\ UNCHANGED << dtry, dcalls >>
    /\ UNCHANGED dbFrame

\* what the body of save_batch does: return True (saved, or nothing to
\* save), return False (its except clause), or raise outside its try
BatchOutcomes == {"True", "False", "Raise"}

\* return method(self, *args, **kwargs), then the finally: conn.close(); a
\* raise of the body is logged by the except clause and None is returned
SaveBatchBody ==
    /\ dpc = "method"
    /\ \E o \in BatchOutcomes : dret' = IF o = "Raise" THEN "None" ELSE o
    /\ conn' = "closed" /\ nopen' = nopen - 1
    /\ dpc' = "idle"
    /\ UNCHANGED << dtry, dcalls >>
    /\ UNCHANGED dbFrame

DbNext == SaveBatchCall \/ GetConnection \/ MakeCursor \/ SaveBatchBody

(* --------------------------- specification ----------------------------- *)
Next == Main \/ (\E w \in Workers : Worker(w)) \/ Saver

Spec == Init /\ [][Next]_vars

\* one scraping_executor call on its own, with every sequence of responses
PageSpec == Init /\ [][PageNext]_vars

\* a sequence of save_batch calls, with every outcome of the database
DbSpec == Init /\ [][DbNext]_vars

\* the healthy pipeline, no thread starved for ever
FairHealthySpec ==
    /\ Init /\ [][HealthyNext]_vars
    /\ WF_vars(HealthyMain)
    /\ WF_vars(HealthySaver)
    /\ \A w \in Workers : WF_vars(HealthyWorker(w))

\* the pipeline with every queue read of the saver a step of its own
FineSpec == Init /\ [][FineNext]_vars

\* an instance whose run is called again and again
InstanceSpec == Init /\ [][InstanceNext]_vars

\* the three-task scenario
ScenarioSpec == ScInit /\ [][ScNext]_vars

\* threads are scheduled by the operating system: none is starved for ever
FairSpec ==
    /\ Spec
    /\ WF_vars(Main)
    /\ WF_vars(Saver)
    /\ \A w \in Workers : WF_vars(Worker(w))

(* ------------------------------- claims -------------------------------- *)
Returned == mpc = "returned"

\* C1: every task put on the task queue is dequeued and passed to
\* scraping_executor at most once; when execution_pipeline has returned, every
\* task of the run has been passed to it exactly once.
C1_TaskDispatchedOnce ==
    /\ \A t \in 1..MaxTasks : dispatched[t] <= 1
    /\ Returned => \A t \in 1..t_counter : dispatched[t] = 1

\* C1 witness: a run of MaxTasks tasks has returned, every task dispatched.
C1_Witness ==
    /\ Returned /\ t_counter = MaxTasks
    /\ \A t \in 1..MaxTasks : dispatched[t] = 1

\* C2: every task a worker completes goes on to increment exactly one
\* counter: s_counter when scraping_executor returned True, f_counter when it
\* returned False or None or raised.
C2_CompletionCounted ==
    [][\A w \in Workers :
          /\ (wpc[w] = "exec" /\ wpc'[w] # "exec") =>
                /\ wpc'[w] = "inc"
                /\ wres'[w] \in {"True", "False", "None", "Exc"}
          /\ (wpc[w] = "inc" /\ wpc'[w] # "inc") =>
                IF wres[w] = "True"
                THEN s_counter' = wtmp[w] + 1 /\ f_counter' = f_counter
                ELSE f_counter' = wtmp[w] + 1 /\ s_counter' = s_counter
      ]_vars

\* C3: no increment of s_counter or f_counter is lost: the step in which a
\* worker finishes its "+= 1" raises s_counter + f_counter by exactly one
\* (so that the counters add up to the tasks completed when the run returns).
C3_NoLostIncrement ==
    [][\A w \in Workers :
          (wpc[w] = "inc" /\ wpc'[w] # "inc") =>
              s_counter' + f_counter' = s_counter + f_counter + 1
      ]_vars

AllPassed == \A n \in 1..produced : passed[n] >= 1

\* C4: when execution_pipeline has returned, the result queue and the saver's
\* to_save buffer are empty and every record put on the result queue has been
\* in a list passed to saving_executor.
C4_NoRecordLeftBehind ==
    Returned => (results = <<>> /\ to_save = <<>> /\ AllPassed)

\* C4 witness: a returned run in which MaxRecords records were produced, the
\* last of them saved by the final flush and the others by the saver loop.
C4_Witness ==
    /\ Returned /\ produced = MaxRecords
    /\ lastBy = "final" /\ Len(lastBatch) < produced

\* C5: no record is passed to saving_executor in two batches.
C5_OneBatchPerRecord == \A n \in 1..MaxRecords : passed[n] <= 1

\* C5 witness: the final flush has just saved a batch while another record
\* had already been saved by the saver loop.
C5_Witness ==
    /\ lastBy = "final" /\ lastBatch # <<>>
    /\ \E n \in 1..produced :
          /\ passed[n] = 1
          /\ \A i \in DOMAIN lastBatch : lastBatch[i].serial # n

\* C6: every list the saver loop passes to saving_executor holds at most
\* save_result_limit records.
C6_BatchWithinLimit == lastBy = "saver" => Len(lastBatch) <= save_result_limit

KeysOf(rs) == { rs[i].product_id : i \in DOMAIN rs }

\* C7: the list handed to db.save_products holds exactly one record per
\* product_id of the batch, each a record of the batch, and no product_id of
\* the batch is missing.
C7_OneRecordPerKey ==
    lastBy # "-" =>
        /\ KeysOf(lastSunk) = KeysOf(lastBatch)
        /\ \A i, j \in DOMAIN lastSunk :
              lastSunk[i].product_id = lastSunk[j].product_id => i = j
        /\ \A i \in DOMAIN lastSunk : \E j \in DOMAIN lastBatch : lastSunk[i] = lastBatch[j]

\* C7 witness: a batch with a repeated product_id and two different ones.
C7_Witness ==
    /\ lastBy # "-"
    /\ Len(lastSunk) < Len(lastBatch)
    /\ Cardinality(KeysOf(lastBatch)) >= 2

\* position in the batch of the record handed to the sink
IndexIn(batch, r) == CHOOSE j \in DOMAIN batch : batch[j] = r

\* C8 as stated: of several records with one product_id the sink gets the
\* last one enqueued.
C8_LastSeenWins ==
    lastBy # "-" =>
        \A i \in DOMAIN lastSunk : \A j \in DOMAIN lastBatch :
            lastBatch[j].product_id = lastSunk[i].product_id =>
                j <= IndexIn(lastBatch, lastSunk[i])

\* C8 amended: of several records with one product_id the sink gets the
\* first one enqueued.
C8_FirstSeenWins ==
    lastBy # "-" =>
        \A i \in DOMAIN lastSunk : \A j \in DOMAIN lastBatch :
            lastBatch[j].product_id = lastSunk[i].product_id =>
                j >= IndexIn(lastBatch, lastSunk[i])

\* C8 witness: a batch in which two records share a product_id.
C8_Witness ==
    /\ lastBy # "-"
    /\ \E i, j \in DOMAIN lastBatch :
          i < j /\ lastBatch[i].product_id = lastBatch[j].product_id

\* C9: once is_stopped is True no worker dequeues another task.
C9_NoDequeueAfterStop ==
    [][is_stopped => Len(tasks') >= Len(tasks)]_vars

InFlight == \E w \in Workers : wpc[w] \in {"exec", "inc", "release"}

\* C10: after is_stopped has been set, the tasks in flight run to completion
\* and every record produced is eventually passed to saving_executor.
C10_InFlightRecordsSaved == is_stopped ~> (~InFlight /\ AllPassed)

\* the saver's save just made returned False while tasks are still queued
SaveFailedTasksLeft == lastBy = "saver" /\ save_ret = "False" /\ qsize(tasks) # 0

\* C11: if a batch save fails while the task queue still holds unconsumed
\* tasks, execution_pipeline eventually returns False (and so run returns
\* False)
C11_FailedSaveReturnsFalse == SaveFailedTasksLeft ~> (Returned /\ ret = "False")

\* C12: whenever a save attempted by the saver loop fails (saving_executor
\* returns False, None or an exception object, anything but True), is_stopped
\* is True once the call is over
C12_FailedSaveStops == (lastBy = "saver" /\ save_ret # "True") => is_stopped

\* C13: whatever number of workers fail initialize_session, the run still ends
\* and returns (a run stopped by a failed save is left aside)
C13_RunReturnsAfterStartupFailures == (mpc = "join") ~> (Returned \/ is_stopped)

\* C14: a page skipped by scraping_executor was requested exactly max_retries
\* times; no page is requested more often, and a page whose attempts all
\* failed so far is requested again while fewer than max_retries were made
C14_ExactlyMaxRetries ==
    /\ \A p \in Pages : tries[p] <= max_retries
    /\ \A p \in Pages : left[p] = "skipped" => tries[p] = max_retries
    /\ xpc = "request" => tries[page] = attempt /\ attempt < max_retries

C14_Witness == xpc = "done" /\ \E p \in Pages : left[p] = "skipped"

\* the run of one scraping_executor call is over
ExecDone == xpc = "done"

\* C15: when a page has exhausted its retries, whether on transport errors or
\* on parse errors, scraping_executor still returns True and the task is
\* counted as a success
C15_SkippedPageTaskSucceeds ==
    (ExecDone /\ \E p \in Pages : left[p] = "skipped")
        => (xret = "True" /\ progress_logger(xret) = "s" /\ s_counter = 1)

\* C17: once a page of the task has answered 204, no page with a higher
\* number is requested, and the task completes without error
C17_NoRequestAfter204 ==
    /\ \A p, q \in Pages : (left[p] = "204" /\ q > p) => tries[q] = 0
    /\ (ExecDone /\ \E p \in Pages : left[p] = "204") => xret = "True"

\* the payload of the response could not be parsed: parse_product_data found
\* no product_info (it returned False) or raised
Unparsable(r) == r.status = "200" /\ r.parsed.kind \in {"bool", "exc"}

\* C18: a request whose payload cannot be parsed is a failed attempt of its
\* page: the page is requested again while attempts are left, and is skipped
\* when this was the last of its max_retries attempts
C18_ParseErrorIsRetried ==
    [][(tries' # tries /\ Unparsable(resp')) =>
           IF attempt + 1 < max_retries
           THEN page' = page /\ attempt' = attempt + 1 /\ xpc' = "request"
           ELSE left'[page] = "skipped"]_vars

\* C19: last_page changes only on a request whose page is parsed with success,
\* and then holds the page count that page reports; an attempt that fails
\* leaves it alone; the next page is requested iff its number is at most the
\* page count in force
C19_LastPageFromParsedPage ==
    [][/\ (xpc = "request" /\ last_page' # last_page) =>
              (resp'.status = "200" /\ resp'.parsed.kind = "int"
                  /\ last_page' = resp'.parsed)
       /\ (tries' # tries /\ AttemptFails(resp')) => last_page' = last_page
       /\ (xpc = "while" /\ xpc' # xpc) =>
              (xpc' = "request" <=> page <= last_page.val)]_vars

\* the code takes the response as a success of its page: a 204, or a 200
\* whose parse gives a page count that passes isinstance(last_page, int)
TakenAsSuccess(r) ==
    r.status = "204" \/ (r.status = "200" /\ r.parsed.kind \in {"int", "bool"})

RECURSIVE SumPassed(_)
SumPassed(n) == IF n = 0 THEN 0 ELSE passed[n] + SumPassed(n - 1)

\* records passed to saving_executor so far, over all its calls
TotalPassed == SumPassed(ScRecords)

\* a flush, by the records flushed before it and its size. With L the batch
\* limit and N the records of the scenario, the sequences "one flush of L and
\* a last one of N - L" and "two flushes of L and one of N - 2L" are made of
\* these flushes, and of no others
ClaimedFlushes ==
    { <<0, save_result_limit>>,
      <<save_result_limit, ScRecords - save_result_limit>>,
      <<save_result_limit, save_result_limit>>,
      <<2 * save_result_limit, ScRecords - 2 * save_result_limit>> }

NoDuplicateKey(rs) == \A i, j \in DOMAIN rs : rs[i].product_id = rs[j].product_id => i = j

\* C16: in the scenario (3 tasks, 2 workers, limit 2, 5 records with distinct
\* keys) every flush of a run that parsed the 5 records is one of the flushes
\* of the sequences 2,3 and 2,2,1, and the run ends with exactly 5 records
\* saved and no key twice
C16_FlushSizes ==
    /\ (lastBy # "-" /\ produced = ScRecords) =>
           << TotalPassed - Len(lastBatch), Len(lastBatch) >> \in ClaimedFlushes
    /\ (Returned /\ produced = ScRecords) =>
           (TotalPassed = ScRecords /\ \A n \in 1..ScRecords : passed[n] = 1)

\* C16 as the code has it: the flushes are not empty, each hands every
\* record of its batch to the database, no record is in two flushes and no
\* key is saved twice; the run that parsed the 5 records ends with exactly 5
\* records saved. The sizes of the flushes depend on the interleaving.
C16_AllSavedOnce ==
    /\ lastBy # "-" =>
           (Len(lastBatch) >= 1 /\ lastSunk = lastBatch /\ NoDuplicateKey(lastSunk)
               /\ save_ret = "True")
    /\ \A n \in 1..ScRecords : passed[n] <= 1
    /\ (Returned /\ produced = ScRecords) =>
           (TotalPassed = ScRecords /\ \A n \in 1..ScRecords : passed[n] = 1)

\* a run of the scenario whose only flush is the last saving, of all 5 records
C16_Witness ==
    /\ Returned /\ produced = ScRecords /\ TotalPassed = ScRecords
    /\ lastBy = "final" /\ Len(lastBatch) = ScRecords

\* C21: a worker that ran scraping_executor, whatever it returned or raised,
\* only goes on to count the result, release its permit and test the loop
\* condition again; from there it dequeues the next task iff the task queue is
\* not empty and is_stopped is False
C21_TaskFailureKeepsWorker ==
    [][\A w \in Workers :
         /\ (wpc[w] = "exec" /\ wpc'[w] # "exec") => wpc'[w] \in {"inc", "release"}
         /\ (wpc[w] = "inc" /\ wpc'[w] # "inc") => wpc'[w] = "release"
         /\ (wpc[w] = "release" /\ wpc'[w] # "release") =>
                (wpc'[w] = "loop" /\ block' = block + 1)
         /\ (wpc[w] = "loop" /\ wpc'[w] # "loop") =>
                (wpc'[w] = "acquire" <=> (qsize(tasks) # 0 /\ ~is_stopped))]_vars

\* worker 1 runs a second task after its first one was not a success, while
\* worker 2 has not started
C21_Witness ==
    /\ wpc[1] = "exec" /\ wpc[2] = "session"
    /\ s_counter = 0
    /\ Cardinality({t \in DOMAIN dispatched : dispatched[t] = 1}) = 2

\* the workers that hold a permit: between acquire and release
Holders == { w \in Workers : wpc[w] \in {"get", "exec", "inc", "release"} }

\* C23: at most th_num workers hold a permit, every permit taken is either
\* held or given back, and all th_num permits are free once the workers have
\* finished
C23_PermitsBalanced ==
    /\ Cardinality(Holders) <= th_num
    /\ block >= 0
    /\ block + Cardinality(Holders) = th_num
    /\ (\A w \in Workers : wpc[w] = "done") => block = th_num

\* every worker has finished after tasks were dequeued and run, and all
\* permits are back
C23_Witness ==
    /\ mpc = "join" /\ \A w \in Workers : wpc[w] = "done"
    /\ block = th_num
    /\ \E t \in DOMAIN dispatched : dispatched[t] >= 1

\* C25: the last saving of execution_pipeline takes records from the result
\* queue only when every worker thread and the saver thread have ended; any
\* other take is made by the saver thread, before the joins are over
C25_FinalFlushAfterJoins ==
    [][/\ (mpc = "join" /\ mpc' # "join") =>
              (spc = "done" /\ \A w \in Workers : wpc[w] = "done")
       /\ Len(results') < Len(results) =>
              \/ (mpc = "join" /\ mpc' = "check" /\ spc = "done"
                     /\ \A w \in Workers : wpc[w] = "done")
              \/ (mpc' = mpc /\ spc \in {"take", "last"})]_vars

C25_Witness == mpc = "check" /\ lastBy = "final" /\ Len(lastBatch) >= 1

\* C30: when execution_pipeline is at its failure check the task queue is
\* empty, and the saver thread ends only on seeing both queues empty
C30_TasksEmptyAtCheck ==
    [][/\ mpc' = "check" => qsize(tasks') = 0
       /\ (spc # "done" /\ spc' = "done") => (qsize(tasks) = 0 /\ qsize(results) = 0)]_vars

\* the failure check is reached by a run whose saver had a save fail
C30_Witness == mpc = "check" /\ is_stopped /\ qsize(tasks) = 0

\* C22: is_stopped is set only by the saver thread, in the step in which its
\* save returns False, and cleared only where execution_pipeline starts; no
\* step of a worker changes it
C22_OnlySaverStops ==
    [][is_stopped' # is_stopped =>
           IF is_stopped'
           THEN spc = "save" /\ lastBy' = "saver" /\ save_ret' = "False"
           ELSE mpc = "returned" /\ ret' \in {"-", "Exc"}]_vars

\* a task failed and was counted, later the saver's save failed and set the flag
C22_Witness ==
    /\ is_stopped /\ lastBy = "saver" /\ save_ret = "False"
    /\ f_counter >= 1

\* C26: where execution_pipeline has started its threads and none has taken
\* a step, s_counter = 0, f_counter = 0, t_counter is the number of tasks of
\* this call and is_stopped is False, whatever the run before left
C26_ResetAtStart ==
    [][(mpc # "join" /\ mpc' = "join") =>
           /\ s_counter' = 0 /\ f_counter' = 0 /\ is_stopped' = FALSE
           /\ t_counter' = Len(tasks') - Len(tasks)
           /\ t_counter' >= 1]_vars

\* a second run has just started on an instance whose first run saved records
C26_Witness ==
    /\ mpc = "join" /\ spc = "top" /\ \A w \in Workers : wpc[w] = "session"
    /\ on_conflict_stmt = "prepared"
    /\ s_counter = 0 /\ f_counter = 0 /\ ~is_stopped

\* C27: run returns True when execution_pipeline returned True and False
\* whenever it failed: returned False, or raised an exception caught by its
\* exception decorator
C27_RunReturnsBoolean ==
    Returned => (run_result(ret) = (IF ret = "True" THEN "True" ELSE "False"))

\* C24: no thread waits for ever at a queue read: a worker at its tasks.get
\* either gets a task or, on an empty queue, times out and ends; the saver
\* is at a results.get() only with a non-empty result queue, and the last
\* saving of execution_pipeline, made after the joins, takes only what is there
C24_NoBlockingRead ==
    /\ \A w \in Workers : wpc[w] = "get" => ENABLED (GetTask(w) \/ GetEmpty(w))
    /\ spc \in {"take_get", "last_get"} => (qsize(results) # 0 /\ ENABLED FineSaver)
    /\ (mpc = "join" /\ AllJoined) => ENABLED FinalFlush

\* a worker is at its get with the task queue emptied by the other worker,
\* while the saver is at a get of the result queue
C24_Witness ==
    /\ \E w \in Workers : wpc[w] = "get" /\ qsize(tasks) = 0
    /\ spc \in {"take_get", "last_get"}

\* C29: when every worker gets a session, every save returns True and every
\* task ends, a started execution_pipeline eventually returns True with the
\* task queue and the result queue empty
C29_HealthyRunReturnsTrue ==
    (mpc = "join") ~> (Returned /\ ret = "True" /\ qsize(tasks) = 0 /\ qsize(results) = 0)

\* a healthy run that parsed and saved records has returned True
C29_Witness ==
    /\ Returned /\ ret = "True" /\ qsize(tasks) = 0 /\ qsize(results) = 0
    /\ produced >= 1 /\ AllPassed

\* C28: a save_batch call holds at most one connection, opened in the call;
\* when the call has returned, on success, on an exception of the save and on
\* failure to connect alike, no connection is open
C28_ConnectionPerCall ==
    /\ nopen \in {0, 1}
    /\ nopen = 1 <=> conn = "open"
    /\ dpc \in {"cursor", "method"} => conn = "open"
    /\ dpc \in {"idle", "connect"} => nopen = 0

\* a call that followed another has returned after an exception, its
\* connection closed
C28_Witness ==
    /\ dpc = "idle" /\ dcalls >= 2
    /\ dret = "None" /\ conn = "closed" /\ nopen = 0

\* C31: in every reachable state of a run, s_counter + f_counter <= t_counter:
\* the progress reported never exceeds 100%, whatever the interleaving of the
\* workers and whatever the tasks return or raise.
C31_ProgressWithinTotal == s_counter + f_counter <= t_counter

\* the last saving of the run was attempted and db.save_products did not
\* return True
FinalFlushFailed == lastBy = "final" /\ save_ret # "True"

\* C32: the outcome of the last saving in execution_pipeline changes neither
\* is_stopped nor the value returned: the step that makes the last saving
\* leaves is_stopped (and the task queue the failure check reads) as it was,
\* whatever saving_executor returns, and the value returned after a failed last
\* saving is the one the failure check gives on is_stopped and the task queue
\* alone, the same as after a last saving that succeeded.
C32_FinalSaveOutcomeIgnored ==
    [][/\ (mpc = "join" /\ mpc' = "check") =>
              (is_stopped' = is_stopped /\ tasks' = tasks /\ ret' = ret)
       /\ (mpc = "check" /\ mpc' = "returned") =>
              /\ is_stopped' = is_stopped
              /\ ret' = IF qsize(tasks) # 0 /\ is_stopped THEN "False" ELSE "True"
      ]_vars

\* C32 witness: a run has returned True with the stop flag clear although its
\* last saving, of at least one record, returned False.
C32_Witness ==
    /\ Returned /\ FinalFlushFailed /\ save_ret = "False"
    /\ Len(lastBatch) >= 1
    /\ ~is_stopped /\ ret = "True"
====
